---- MODULE Spec2Model ----
(***************************************************************************)
(* Model of src/qrcode.tsx: the App component of the QR code form.  The    *)
(* state is the component's two useState cells (config, status), whether   *)
(* the component is mounted, the fetches that have been started and have   *)
(* not settled yet, and the object URLs the browser has handed out with    *)
(* the number of times each one was revoked.                               *)
(*                                                                         *)
(* JavaScript strings are sequences of one-character strings, so that      *)
(* trim() and parseInt() are computed character by character.              *)
(***************************************************************************)
EXTENDS Integers, Sequences, FiniteSets, TLC

VARIABLES
    config,         \* useState<QRConfig>: text, size, color, background, margin
    status,         \* useState<AppStatus>: loading, qrUrl, error
    mounted,        \* the component instance is mounted
    requests,       \* calls of generateQRCode suspended at one of their awaits
    issued,         \* number of fetch() calls made so far
    passed,         \* number of submits that got past the validation return
    handles,        \* handles[u] = times URL.revokeObjectURL(u) was called;
                    \* Len(handles) = number of URL.createObjectURL calls
    staleUpdates    \* setStatus calls made after the component was unmounted

vars == <<config, status, mounted, requests, issued, passed, handles, staleUpdates>>

-----------------------------------------------------------------------------
(* Bounds of the model *)

\* the number of fetch() calls explored
MaxRequests == 3
\* the length of the strings typed into a numeric input (FieldSpec)
MaxLen == 2

-----------------------------------------------------------------------------
(* JavaScript values *)

\* status.qrUrl: null, or an object URL (numbered 1, 2, ... in creation order)
NullUrl == 0
\* status.error: null, or a message
NullError == "null"

\* a numeric field holds a number or the string ""
Num(k) == [isNum |-> TRUE, n |-> k]
EmptySentinel == [isNum |-> FALSE, n |-> 0]

\* parseInt's result: NaN or an integer
NaN == [isNaN |-> TRUE, val |-> 0]
Int10(k) == [isNaN |-> FALSE, val |-> k]

WhiteSpace == {" ", "\n", "\t"}
DigitChars == {"0", "1", "2", "3", "4", "5", "6", "7", "8", "9"}

DigitValue(c) ==
    CASE c = "0" -> 0 [] c = "1" -> 1 [] c = "2" -> 2 [] c = "3" -> 3
      [] c = "4" -> 4 [] c = "5" -> 5 [] c = "6" -> 6 [] c = "7" -> 7
      [] c = "8" -> 8 [] c = "9" -> 9

RECURSIVE TrimStart(_)
TrimStart(s) ==
    IF s = <<>> THEN s
    ELSE IF Head(s) \in WhiteSpace THEN TrimStart(Tail(s)) ELSE s

RECURSIVE TrimEnd(_)
TrimEnd(s) ==
    IF s = <<>> THEN s
    ELSE IF s[Len(s)] \in WhiteSpace THEN TrimEnd(SubSeq(s, 1, Len(s) - 1)) ELSE s

\* String.prototype.trim
Trim(s) == TrimEnd(TrimStart(s))

\* the longest prefix of s made of decimal digits
RECURSIVE DigitPrefix(_)
DigitPrefix(s) ==
    IF s = <<>> THEN <<>>
    ELSE IF Head(s) \in DigitChars THEN <<Head(s)>> \o DigitPrefix(Tail(s)) ELSE <<>>

\* the value of a sequence of decimal digits
RECURSIVE DecimalValue(_)
DecimalValue(d) ==
    IF d = <<>> THEN 0
    ELSE 10 * DecimalValue(SubSeq(d, 1, Len(d) - 1)) + DigitValue(d[Len(d)])

\* parseInt(s, 10): leading white space is skipped, then an optional sign, then
\* the longest run of digits; what follows the digits is ignored; no digit: NaN
ParseInt(s) ==
    LET t == TrimStart(s)
        signed == t # <<>> /\ Head(t) \in {"+", "-"}
        sign == IF t # <<>> /\ Head(t) = "-" THEN -1 ELSE 1
        d == DigitPrefix(IF signed THEN Tail(t) ELSE t)
    IN  IF d = <<>> THEN NaN ELSE Int10(sign * DecimalValue(d))

-----------------------------------------------------------------------------
(* The form *)

FieldNames == {"text", "size", "color", "background", "margin"}

\* e.target.type of the control named name
FieldType(name) ==
    CASE name = "text" -> "textarea"
      [] name \in {"size", "margin"} -> "number"
      [] name \in {"color", "background"} -> "color"

InitialText ==
    <<"h", "t", "t", "p", "s", ":", "/", "/", "e", "x", "a", "m", "p", "l", "e",
      ".", "c", "o", "m">>
Black == <<"#", "0", "0", "0", "0", "0", "0">>
White == <<"#", "f", "f", "f", "f", "f", "f">>
Red == <<"#", "f", "f", "0", "0", "0", "0">>

InitialConfig ==
    [text |-> InitialText, size |-> Num(300), color |-> Black,
     background |-> White, margin |-> Num(4)]

InitialStatus == [loading |-> FALSE, qrUrl |-> NullUrl, error |-> NullError]


-----------------------------------------------------------------------------
(* The request body *)

\* one member of the JSON object: a numeric field is a JSON number, or the
\* JSON string "" when it holds the empty sentinel
JsonNumberField(key, v) ==
    IF v.isNum THEN [key |-> key, type |-> "number", num |-> v.n, str |-> <<>>]
    ELSE [key |-> key, type |-> "string", num |-> 0, str |-> <<>>]
JsonStringField(key, v) == [key |-> key, type |-> "string", num |-> 0, str |-> v]

\* JSON.stringify(config): the members in the order of the object's keys
JSONStringify(cfg) ==
    <<JsonStringField("text", cfg.text), JsonNumberField("size", cfg.size),
      JsonStringField("color", cfg.color),
      JsonStringField("background", cfg.background),
      JsonNumberField("margin", cfg.margin)>>

-----------------------------------------------------------------------------
(* handleInputChange *)

\* an updater without the spread of prev: the other fields are lost
NextConfig_NoSpread(prev, name, value, type) ==
    LET blank == [text |-> <<>>, size |-> EmptySentinel, color |-> <<>>,
                  background |-> <<>>, margin |-> EmptySentinel]
    IN  IF type = "number"
        THEN IF value = <<>>
             THEN [blank EXCEPT ![name] = EmptySentinel]
             ELSE LET num == ParseInt(value)
                  IN  IF ~num.isNaN THEN [blank EXCEPT ![name] = Num(num.val)] ELSE prev
        ELSE [blank EXCEPT ![name] = value]

\* a handler that turns the cleared input into 0
NextConfig_ZeroOnEmpty(prev, name, value, type) ==
    IF type = "number"
    THEN LET num == IF value = <<>> THEN Int10(0) ELSE ParseInt(value)
         IN  IF ~num.isNaN THEN [prev EXCEPT ![name] = Num(num.val)] ELSE prev
    ELSE [prev EXCEPT ![name] = value]

\* the state setConfig installs for the event {name, value, type}
NextConfig(prev, name, value, type) ==
    IF type = "number"
    THEN IF value = <<>>
         THEN [prev EXCEPT ![name] = EmptySentinel]
         ELSE LET num == ParseInt(value)
              IN  IF ~num.isNaN THEN [prev EXCEPT ![name] = Num(num.val)] ELSE prev
    ELSE [prev EXCEPT ![name] = value]

\* a handler whose update also rewrites the body of the requests in flight
HandleInputChange_LiveBody(name, value, type) ==
    /\ mounted
    /\ config' = NextConfig(config, name, value, type)
    /\ requests' = {[r EXCEPT !.body = JSONStringify(config')] : r \in requests}
    /\ UNCHANGED <<status, mounted, issued, passed, handles, staleUpdates>>

HandleInputChange(name, value, type) ==
    /\ mounted
    /\ config' = NextConfig(config, name, value, type)
    /\ UNCHANGED <<status, mounted, requests, issued, passed, handles, staleUpdates>>

-----------------------------------------------------------------------------
(* The effect on status.qrUrl *)

\* an effect without the cleanup: nothing is ever revoked
RunCleanup_Never(url, hs) == hs

\* the cleanup closure of the effect that ran when status.qrUrl was url
RunCleanup(url, hs) ==
    IF url # NullUrl THEN [hs EXCEPT ![url] = @ + 1] ELSE hs

\* an effect without its dependency array: the cleanup runs at every commit
EffectCleanup_EveryCommit(old, new, hs) == RunCleanup(old, hs)

\* a commit that takes status.qrUrl from old to new: the dependency array makes
\* React run the previous cleanup exactly when the value changed
EffectCleanup(old, new, hs) ==
    IF old # new THEN RunCleanup(old, hs) ELSE hs

\* setStatus(new), with hs the object URLs after those its argument created.
\* React drops a state update of a component that is no longer mounted.
SetStatus(new, hs) ==
    IF mounted
    THEN /\ status' = new
         /\ handles' = EffectCleanup(status.qrUrl, new.qrUrl, hs)
         /\ UNCHANGED staleUpdates
    ELSE /\ status' = status
         /\ handles' = hs
         /\ staleUpdates' = staleUpdates + 1

-----------------------------------------------------------------------------
(* generateQRCode, up to its first await *)

ValidationMessage == "Please enter some content first."
ServerErrorMessage == "Server error. Is the Python backend running?"
FallbackMessage == "Something went wrong."

\* the validation without the trim: white space counts as content
ValidationFails_NoTrim(cfg) == cfg.text = <<>>

\* !config.text.trim()
ValidationFails(cfg) == Trim(cfg.text) = <<>>

\* a validation branch without the spread of prev
ValidationStatus_Reset(prev) == [loading |-> FALSE, qrUrl |-> NullUrl, error |-> ValidationMessage]

\* setStatus(prev => ({ ...prev, error: ... }))
ValidationStatus(prev) == [prev EXCEPT !.error = ValidationMessage]

\* starting an attempt without clearing the previous error
PendingStatus_KeepsError == [loading |-> TRUE, qrUrl |-> NullUrl, error |-> status.error]

\* setStatus({ loading: true, error: null, qrUrl: null })
PendingStatus == [loading |-> TRUE, qrUrl |-> NullUrl, error |-> NullError]

\* a submit button that is never disabled
SubmitEnabled_Always == TRUE

\* the submit button is disabled while status.loading, and a form whose default
\* button is disabled is not submitted implicitly either
SubmitEnabled == ~status.loading

GenerateQRCode ==
    /\ mounted
    /\ SubmitEnabled
    /\ IF ValidationFails(config)
       THEN /\ SetStatus(ValidationStatus(status), handles)
            /\ UNCHANGED <<config, mounted, requests, issued, passed>>
       ELSE /\ issued < MaxRequests
            /\ SetStatus(PendingStatus, handles)
            /\ passed' = passed + 1
            /\ issued' = issued + 1
            /\ requests' = requests \cup
                   {[id |-> issued + 1, stage |-> "fetch", body |-> JSONStringify(config)]}
            /\ UNCHANGED <<config, mounted>>

-----------------------------------------------------------------------------
(* generateQRCode, after its awaits *)

\* a value a promise rejects with
JsError(msg) == [isError |-> TRUE, message |-> msg]
NotAnError == [isError |-> FALSE, message |-> "null"]

Resolved(ok) == [settled |-> "resolve", ok |-> ok, err |-> NotAnError]
Rejected(err) == [settled |-> "reject", ok |-> FALSE, err |-> err]

\* what the fetch promise and the blob promise can settle with
Rejections == {Rejected(JsError("Failed to fetch")), Rejected(NotAnError)}
FetchOutcomes == {Resolved(TRUE), Resolved(FALSE)} \cup Rejections
BlobOutcomes == {Resolved(TRUE)} \cup Rejections

\* err instanceof Error ? err.message : "Something went wrong."
ErrorText(err) == IF err.isError THEN err.message ELSE FallbackMessage

\* a catch block that forgets to clear loading
FailureStatus_StillLoading(err) == [loading |-> TRUE, qrUrl |-> NullUrl, error |-> ErrorText(err)]

\* a catch block that stores no message
FailureStatus_NoError(err) == [loading |-> FALSE, qrUrl |-> NullUrl, error |-> NullError]

\* setStatus({ loading: false, qrUrl: null, error: ... }) of the catch block
FailureStatus(err) == [loading |-> FALSE, qrUrl |-> NullUrl, error |-> ErrorText(err)]

\* a success branch that forgets to clear loading
SuccessStatus_StillLoading(url) == [loading |-> TRUE, qrUrl |-> url, error |-> NullError]

\* setStatus({ loading: false, qrUrl: URL.createObjectURL(imageBlob), error: null })
SuccessStatus(url) == [loading |-> FALSE, qrUrl |-> url, error |-> NullError]

\* URL.createObjectURL: a fresh URL, revoked zero times
CreateObjectURL(hs) == Append(hs, 0)

\* a catch block that sends the request again instead of reporting the failure
Catch_Retry(r, err) ==
    /\ issued < MaxRequests
    /\ issued' = issued + 1
    /\ requests' = (requests \ {r}) \cup
           {[id |-> issued + 1, stage |-> "fetch", body |-> r.body]}
    /\ UNCHANGED <<config, status, mounted, passed, handles, staleUpdates>>

Catch(r, err) ==
    /\ SetStatus(FailureStatus(err), handles)
    /\ requests' = requests \ {r}
    /\ UNCHANGED <<config, mounted, issued, passed>>

\* await fetch(...) settles, then line 83
FetchSettles(r, out) ==
    /\ r \in requests
    /\ r.stage = "fetch"
    /\ IF out.settled = "reject" THEN Catch(r, out.err)
       ELSE IF ~out.ok THEN Catch(r, JsError(ServerErrorMessage))
       ELSE /\ requests' = (requests \ {r}) \cup {[r EXCEPT !.stage = "blob"]}
            /\ UNCHANGED <<config, status, mounted, issued, passed, handles, staleUpdates>>

\* await response.blob() settles, then lines 86-90
BlobSettles(r, out) ==
    /\ r \in requests
    /\ r.stage = "blob"
    /\ IF out.settled = "reject" THEN Catch(r, out.err)
       ELSE /\ SetStatus(SuccessStatus(Len(handles) + 1), CreateObjectURL(handles))
            /\ requests' = requests \ {r}
            /\ UNCHANGED <<config, mounted, issued, passed>>

-----------------------------------------------------------------------------
(* Unmounting: React runs the cleanup of the last effect *)

Unmount ==
    /\ mounted
    /\ mounted' = FALSE
    /\ handles' = RunCleanup(status.qrUrl, handles)
    /\ UNCHANGED <<config, status, requests, issued, passed, staleUpdates>>

-----------------------------------------------------------------------------
(* Specifications *)

Init ==
    /\ config = InitialConfig
    /\ status = InitialStatus
    /\ mounted = TRUE
    /\ requests = {}
    /\ issued = 0
    /\ passed = 0
    /\ handles = <<>>
    /\ staleUpdates = 0

\* what the user enters in the lifecycle specification
TextInputs == {<<>>, <<" ", "\n">>, <<"h", "i">>}
NumberInputs == {<<>>, <<"0">>, <<"x">>}
ColorInputs == {Black, Red}

UiInputs(name) ==
    CASE FieldType(name) = "textarea" -> TextInputs
      [] FieldType(name) = "number" -> NumberInputs
      [] FieldType(name) = "color" -> ColorInputs

InputChange ==
    \E name \in FieldNames : \E value \in UiInputs(name) :
        HandleInputChange(name, value, FieldType(name))

Submit == GenerateQRCode

FetchResponse == \E r \in requests : \E out \in FetchOutcomes : FetchSettles(r, out)

BlobResponse == \E r \in requests : \E out \in BlobOutcomes : BlobSettles(r, out)

Next == InputChange \/ Submit \/ FetchResponse \/ BlobResponse \/ Unmount

Spec == Init /\ [][Next]_vars

\* every promise eventually settles
LiveSpec == Spec /\ WF_vars(FetchResponse) /\ WF_vars(BlobResponse)

\* the strings of length at most n over the characters cs
RECURSIVE Strings(_, _)
Strings(cs, n) ==
    IF n = 0 THEN {<<>>}
    ELSE LET shorter == Strings(cs, n - 1)
         IN  shorter \cup {Append(s, c) : s \in shorter, c \in cs}

NumberAlphabet == {"0", "7", "-", "+", ".", "e", " ", "x"}
TypedNumbers == Strings(NumberAlphabet, MaxLen)

FieldInputs(name) ==
    IF FieldType(name) = "number" THEN TypedNumbers ELSE UiInputs(name)

FieldChange ==
    \E name \in FieldNames : \E value \in FieldInputs(name) :
        HandleInputChange(name, value, FieldType(name))

\* the form alone, with every short string typed into the numeric inputs
FieldSpec == Init /\ [][FieldChange]_vars

-----------------------------------------------------------------------------
(* Vocabulary of the properties *)

\* a string that is empty or made of white space only
OnlyWhiteSpace(s) == \A i \in 1..Len(s) : s[i] \in WhiteSpace

InFlightIds(rs) == {r.id : r \in rs}

\* the object URLs created and not revoked
Unreleased(hs) == {u \in 1..Len(hs) : hs[u] = 0}

IsIdle(s) == ~s.loading /\ s.qrUrl = NullUrl /\ s.error = NullError
IsPending(s) == s.loading /\ s.qrUrl = NullUrl /\ s.error = NullError
IsSucceeded(s) == ~s.loading /\ s.qrUrl # NullUrl /\ s.error = NullError
IsFailed(s) == ~s.loading /\ s.qrUrl = NullUrl /\ s.error # NullError

\* a step in which the call r of generateQRCode ends with the success branch
SucceedsStep(r) == BlobSettles(r, Resolved(TRUE))

\* a step in which it ends in the catch block: fetch rejected, the response was
\* not ok, or reading the body rejected
FailsStep(r) ==
    \/ \E out \in FetchOutcomes : (out.settled = "reject" \/ ~out.ok) /\ FetchSettles(r, out)
    \/ \E out \in BlobOutcomes : out.settled = "reject" /\ BlobSettles(r, out)

\* the request body carries the configuration cfg, member by member
Carries(body, cfg) ==
    /\ Len(body) = Cardinality(FieldNames)
    /\ \A name \in FieldNames : \E i \in 1..Len(body) :
          /\ body[i].key = name
          /\ IF name \in {"size", "margin"}
             THEN IF cfg[name].isNum
                  THEN body[i].type = "number" /\ body[i].num = cfg[name].n
                  ELSE body[i].type = "string" /\ body[i].str = <<>>
             ELSE body[i].type = "string" /\ body[i].str = cfg[name]

-----------------------------------------------------------------------------
(* C1: a submit while the trimmed text is empty (empty or white space only)
   issues no request, in whatever Status it happens, and leaves Status.error
   equal to "Please enter some content first." *)
C1_EmptySubmitNoRequest ==
    [][(GenerateQRCode /\ OnlyWhiteSpace(config.text)) =>
          /\ requests' = requests
          /\ issued' = issued
          /\ status'.error = "Please enter some content first."]_vars

\* an invalid submit made while a result is displayed
C1_Witness ==
    /\ OnlyWhiteSpace(config.text)
    /\ status.error = ValidationMessage
    /\ status.qrUrl # NullUrl
    /\ requests = {}

(* C2: at most one request is in flight at any time, and while Status is
   loading no step issues a request. *)
C2_AtMostOneInFlight ==
    [][/\ Cardinality(requests') <= 1
       /\ status.loading => (issued' = issued /\ InFlightIds(requests') \subseteq InFlightIds(requests))]_vars

\* the second request is in flight, alone
C2_Witness == issued = 2 /\ Cardinality(requests) = 1 /\ status.loading

(* C3: when a request of a mounted component completes, loading becomes false
   and exactly one of qrUrl and error is set: after a response that is ok and
   whose body was read, qrUrl is the URL created in that step and error is
   null; after a response that is not ok or a transport failure (fetch or the
   body read rejected), error is not null, qrUrl is null and no URL was
   created. *)
C3_ExactlyOneOutcome ==
    [][mounted => \A r \in requests :
          /\ (r.id \notin InFlightIds(requests')) =>
                /\ ~status'.loading
                /\ (status'.qrUrl # NullUrl) # (status'.error # NullError)
          /\ SucceedsStep(r) =>
                /\ Len(handles') = Len(handles) + 1
                /\ status'.qrUrl = Len(handles')
                /\ status'.error = NullError
                /\ ~status'.loading
          /\ FailsStep(r) =>
                /\ Len(handles') = Len(handles)
                /\ status'.qrUrl = NullUrl
                /\ status'.error # NullError
                /\ ~status'.loading]_vars

\* a completed request that succeeded
C3_Witness ==
    /\ mounted /\ requests = {} /\ issued = 1
    /\ status.qrUrl = 1 /\ status.error = NullError /\ ~status.loading

(* C4: on a mounted component at most one created URL is unreleased, no URL
   has been released twice, and every URL older than the newest one has been
   released exactly once. *)
C4_OneLiveHandle ==
    mounted =>
        /\ Cardinality(Unreleased(handles)) <= 1
        /\ \A u \in 1..Len(handles) :
              /\ handles[u] <= 1
              /\ u < Len(handles) => handles[u] = 1

\* a second URL was created after a first success
C4_Witness == mounted /\ handles = <<1, 0>> /\ status.qrUrl = 2

(* C5: once the component is unmounted and no request is outstanding, every
   URL ever created has been released exactly once. *)
C5_AllReleasedAfterTeardown ==
    (~mounted /\ requests = {}) => \A u \in 1..Len(handles) : handles[u] = 1

(* C6: after the component was unmounted, a settling request changes no
   Status and creates no object URL. *)
C6_NoEffectAfterTeardown ==
    [][~mounted => (status' = status /\ Len(handles') = Len(handles))]_vars

(* C7: a submit that passes validation leaves Status loading with qrUrl and
   error null and issues exactly one request whose body carries the current
   configuration; no other step issues a request; the number of requests
   issued equals the number of submits that passed validation. *)
C7_OneRequestPerValidSubmit ==
    [][/\ (GenerateQRCode /\ ~OnlyWhiteSpace(config.text)) =>
             /\ status' = [loading |-> TRUE, qrUrl |-> NullUrl, error |-> NullError]
             /\ issued' = issued + 1
             /\ Cardinality(requests' \ requests) = 1
             /\ \A r \in requests' \ requests : Carries(r.body, config)
       /\ (issued' # issued \/ ~(InFlightIds(requests') \subseteq InFlightIds(requests))) =>
             (GenerateQRCode /\ ~OnlyWhiteSpace(config.text))
       /\ issued' = passed']_vars

\* a second valid submit, made after a result was displayed
C7_Witness ==
    /\ issued = 2 /\ passed = 2 /\ Len(handles) = 1 /\ IsPending(status)
    /\ \E r \in requests : r.stage = "fetch" /\ Carries(r.body, config)

(* C8, as stated: the Status of a mounted component is always one of Idle,
   Pending, Succeeded and Failed. *)
C8_FourStates ==
    mounted => (IsIdle(status) \/ IsPending(status) \/ IsSucceeded(status) \/ IsFailed(status))

(* C8, amended: the Status of a mounted component is always one of Idle,
   Pending, Succeeded, Failed, or a result displayed together with the
   validation message (loading false, qrUrl set,
   error = "Please enter some content first."). *)
C8_FourStatesOrResultWithValidationError ==
    mounted =>
        \/ IsIdle(status) \/ IsPending(status) \/ IsSucceeded(status) \/ IsFailed(status)
        \/ (~status.loading /\ status.qrUrl # NullUrl
            /\ status.error = "Please enter some content first.")

\* Failed, then a new attempt started
C8_Witness == mounted /\ IsPending(status) /\ issued = 2 /\ handles = <<>>

(* C9: if every promise eventually settles, a mounted component that is
   Pending eventually is Succeeded or Failed (or unmounted); Pending is left
   only by a step that completes the request, into Succeeded or Failed; and
   Status is not loading once no request is outstanding. *)
C9_PendingResolves ==
    /\ (mounted /\ IsPending(status)) ~> (~mounted \/ IsSucceeded(status) \/ IsFailed(status))
    /\ [][(mounted /\ mounted') =>
             /\ (IsPending(status) /\ status' # status) =>
                   /\ Cardinality(requests') < Cardinality(requests)
                   /\ IsSucceeded(status') \/ IsFailed(status')
             /\ status'.loading => requests' # {}]_vars

\* a request that failed with the server's error
C9_Witness ==
    /\ mounted /\ requests = {} /\ issued = 1
    /\ IsFailed(status) /\ status.error = ServerErrorMessage

-----------------------------------------------------------------------------
(* C10: numeric fields *)

NumericFields == {name \in FieldNames : FieldType(name) = "number"}

\* an optional sign followed by one or more digits, and nothing else
IsIntegerString(s) ==
    LET d == IF s # <<>> /\ s[1] \in {"+", "-"} THEN SubSeq(s, 2, Len(s)) ELSE s
    IN  d # <<>> /\ \A i \in 1..Len(d) : d[i] \in DigitChars

IntegerOf(s) ==
    IF s[1] = "-" THEN 0 - DecimalValue(SubSeq(s, 2, Len(s)))
    ELSE IF s[1] = "+" THEN DecimalValue(SubSeq(s, 2, Len(s)))
    ELSE DecimalValue(s)

\* s from its first character that is not white space
FromFirstNonSpace(s) ==
    LET idx == {i \in 1..Len(s) : s[i] \notin WhiteSpace}
    IN  IF idx = {} THEN <<>>
        ELSE SubSeq(s, CHOOSE i \in idx : \A j \in idx : i <= j, Len(s))

\* the lengths of the prefixes of s (after leading white space) that are integer strings
IntegerPrefixes(s) ==
    {k \in 1..Len(FromFirstNonSpace(s)) : IsIntegerString(SubSeq(FromFirstNonSpace(s), 1, k))}

LongestIntegerPrefix(s) ==
    SubSeq(FromFirstNonSpace(s), 1,
           CHOOSE k \in IntegerPrefixes(s) : \A j \in IntegerPrefixes(s) : j <= k)

(* C10, as stated: for a numeric field, the empty string stores the empty
   sentinel (not 0), an integer string (surrounding white space aside) stores
   that integer, and any other string leaves the field as it was. *)
C10_NonIntegerIgnored ==
    \A name \in NumericFields : \A value \in TypedNumbers :
        LET after == NextConfig(config, name, value, FieldType(name))[name]
        IN  /\ value = <<>> => (after = EmptySentinel /\ after # Num(0))
            /\ IsIntegerString(Trim(value)) => after = Num(IntegerOf(Trim(value)))
            /\ (value # <<>> /\ ~IsIntegerString(Trim(value))) => after = config[name]

(* C10, amended: for a numeric field, the empty string stores the empty
   sentinel (not 0); a string that, after leading white space, starts with an
   integer (an optional sign and digits) stores that leading integer, whatever
   follows it; any other string leaves the field as it was. *)
C10_LeadingIntegerStored ==
    \A name \in NumericFields : \A value \in TypedNumbers :
        LET after == NextConfig(config, name, value, FieldType(name))[name]
        IN  /\ value = <<>> => (after = EmptySentinel /\ after # Num(0))
            /\ IntegerPrefixes(value) # {} => after = Num(IntegerOf(LongestIntegerPrefix(value)))
            /\ (value # <<>> /\ IntegerPrefixes(value) = {}) => after = config[name]

\* both numeric fields were edited: one cleared, one set to a negative number
C10_Witness == config.size = EmptySentinel /\ config.margin = Num(0 - 7)

-----------------------------------------------------------------------------
(* C11: a field update, in any state, changes at most the named field of the
   configuration and leaves the other fields, the Status, the requests in
   flight and the object URLs as they were. *)
C11_UpdateFieldFrame ==
    [][/\ \A name \in FieldNames : \A value \in UiInputs(name) :
             HandleInputChange(name, value, FieldType(name)) =>
                 \A other \in FieldNames \ {name} : config'[other] = config[other]
       /\ config' # config =>
             /\ Cardinality({f \in FieldNames : config'[f] # config[f]}) = 1
             /\ status' = status
             /\ requests' = requests
             /\ handles' = handles]_vars

\* a numeric field cleared while a request is in flight and a result was shown before
C11_Witness ==
    /\ mounted /\ status.loading /\ Len(handles) = 1
    /\ config.size = EmptySentinel /\ config.margin = Num(4)

(* C12: the body of a request carries the configuration of the moment of its
   submit, and no later step changes the body of a request in flight. *)
C12_PayloadIsSnapshot ==
    [][/\ \A r \in requests' :
             (r.id \notin InFlightIds(requests)) => Carries(r.body, config)
       /\ \A r \in requests : \A q \in requests' :
             (q.id = r.id) => q.body = r.body]_vars

\* the configuration was edited while the request is in flight
C12_Witness ==
    /\ mounted /\ status.loading
    /\ \E r \in requests : ~Carries(r.body, config)

(* C13: size is the empty sentinel or a positive integer, and margin is the
   empty sentinel or a non-negative integer. *)
C13_SizePositiveMarginNonNegative ==
    /\ config.size.isNum => config.size.n > 0
    /\ config.margin.isNum => config.margin.n >= 0

(* C14: on a mounted component a non-null Status.qrUrl is an object URL that
   was created and has not been revoked. *)
C14_DisplayedUrlIsLive ==
    (mounted /\ status.qrUrl # NullUrl) =>
        /\ status.qrUrl \in 1..Len(handles)
        /\ handles[status.qrUrl] = 0

\* a result still displayed after an invalid submit and a later edit of the text
C14_Witness ==
    /\ mounted /\ status.qrUrl = 1 /\ handles = <<0>>
    /\ status.error = ValidationMessage /\ ~OnlyWhiteSpace(config.text)

(* C15: on a mounted component Status.loading is true exactly when one
   request is in flight. *)
C15_LoadingIffOneInFlight ==
    mounted => (status.loading <=> Cardinality(requests) = 1)

\* loading while the response body is being read
C15_Witness ==
    /\ mounted /\ status.loading
    /\ \E r \in requests : r.stage = "blob"

(* C16: a submit that fails validation keeps loading and qrUrl, revokes and
   creates no object URL, issues nothing and leaves the configuration as it
   was: only Status.error changes. *)
C16_InvalidSubmitFrame ==
    [][(GenerateQRCode /\ OnlyWhiteSpace(config.text)) =>
          /\ status'.loading = status.loading
          /\ status'.qrUrl = status.qrUrl
          /\ handles' = handles
          /\ config' = config
          /\ requests' = requests]_vars

\* an invalid submit made while the second result is displayed
C16_Witness ==
    /\ mounted /\ status.qrUrl = 2 /\ handles = <<1, 0>>
    /\ status.error = ValidationMessage

====
